---- MODULE Spec2Model ----
(***************************************************************************)
(* Model of src/app.py: a Streamlit note-keeping application.  Every       *)
(* browser session (an "interaction context") reruns main() in its own     *)
(* thread; all threads share ONE psycopg2 connection (get_connection is a  *)
(* process-wide singleton), hence one PostgreSQL transaction.  A step of   *)
(* the model is one statement sent over that connection (execute, commit)  *)
(* together with the thread-local code that follows it.                    *)
(*                                                                         *)
(* users / notes are the rows the shared connection sees (its open         *)
(* transaction included); usersDurable / notesDurable are the committed    *)
(* rows, what a ROLLBACK returns to.                                       *)
(***************************************************************************)
EXTENDS Integers, Sequences, FiniteSets, TLC

VARIABLES users, usersDurable, notes, notesDurable, txn,
          nextUserId, nextNoteId, now, session, ctx, started

vars == <<users, usersDurable, notes, notesDurable, txn,
          nextUserId, nextNoteId, now, session, ctx, started>>

dbVars == <<users, usersDurable, notes, notesDurable, txn,
            nextUserId, nextNoteId, now>>

(* ------------------------------ bounds -------------------------------- *)

\* script runs (or direct calls of a core function) started, all contexts together
MaxRuns == 3

Contexts == {"c1", "c2", "c3"}
\* the contexts that call the core functions directly in CoreSpec
Callers == {"c1", "c2"}
Emails == {"a@b.c", "b@b.c"}
Passwords == {"pass1", "pw"}
Salts == {"s1"}
Whitespace == {" ", "\n"}
Texts == {<< >>, <<" ">>, <<" ", "a", "\n">>}

(* ------------------------- values and helpers ------------------------- *)

\* Python's None / a present value, for the optional session fields
None == << >>
Some(x) == <<x>>

MinEmailLen == 5
MinPasswordLen == 4

\* str.strip(): drop leading and trailing whitespace
RECURSIVE LStrip(_)
LStrip(s) == IF s # << >> /\ Head(s) \in Whitespace THEN LStrip(Tail(s)) ELSE s

RECURSIVE RStrip(_)
RStrip(s) == IF s # << >> /\ s[Len(s)] \in Whitespace
             THEN RStrip(SubSeq(s, 1, Len(s) - 1)) ELSE s

Strip(s) == RStrip(LStrip(s))

\* passlib bcrypt: a salted one-way digest, and its verification
BcryptHash(password, salt) == [salt |-> salt, digest |-> <<salt, password>>]

BcryptVerify(password, hash) == BcryptHash(password, hash.salt) = hash

\* session_state of a context that never ran main(): no keys
EmptySession == [k \in {} |-> None]

AnonSession == [authenticated |-> FALSE, user_id |-> None, email |-> None]

IsAuthenticated(s) == IF "authenticated" \in DOMAIN s THEN s.authenticated ELSE FALSE

\* the user a session is logged in as, if any
CurrentUser(s) == IF IsAuthenticated(s) THEN s.user_id ELSE None

SessionInit(s) == IF "authenticated" \in DOMAIN s THEN s ELSE AnonSession

\* the frame of a context: the call it is in (or the last one it finished)
IdleFrame == [pc |-> "idle", via |-> "main", op |-> "none", email |-> "",
              password |-> "", user_id |-> None, text |-> << >>, new_id |-> None,
              rows |-> << >>, ret |-> "none", rivals |-> {}, prev |-> None,
              was |-> None]

(* ------------------------------- Init --------------------------------- *)

\* a user registered by an earlier run of the process
SeedUser == [id |-> 1, email |-> "a@b.c", password_hash |-> BcryptHash("pass1", "s1")]

\* The process has just started: the connection is idle, every session_state is
\* empty, no script run has begun.  The database outlives the process: its
\* schema exists, and it is empty or holds what earlier runs committed.
Init ==
    /\ users \in {{}, {SeedUser}}
    /\ usersDurable = users
    /\ notes = {}
    /\ notesDurable = {}
    /\ txn = "ready"
    /\ nextUserId = Cardinality(users) + 1
    /\ nextNoteId = 1
    /\ now = 0
    /\ session = [c \in Contexts |-> EmptySession]
    /\ ctx = [c \in Contexts |-> IdleFrame]
    /\ started = 0

(* --------------------- the shared connection --------------------------- *)

\* A statement sent while the transaction is aborted is refused by the server
\* (InFailedSqlTransaction); nothing in app.py ever issues a ROLLBACK.
Refused == txn = "failed"

\* (a users table declared without UNIQUE)
UniqueViolation_Off(rows, email) == FALSE

\* users.email is UNIQUE: an INSERT of an email the table holds is refused
UniqueViolation(rows, email) == \E u \in rows : u.email = email

\* notes.user_id REFERENCES users(id): the owner row must exist
ForeignKeyViolation(rows, user_id) == ~ \E u \in rows : Some(u.id) = user_id

\* cur.fetchone() after SELECT ... WHERE email = %s: the row, or None
FetchByEmail(rows, email) ==
    IF \E u \in rows : u.email = email
    THEN Some(CHOOSE u \in rows : u.email = email)
    ELSE None

\* conn.commit(): COMMIT makes the open transaction durable; on an aborted
\* transaction the server answers COMMIT with a rollback, without an error.
Commit ==
    /\ txn' = "ready"
    /\ usersDurable' = IF txn = "begin" THEN users ELSE usersDurable
    /\ notesDurable' = IF txn = "begin" THEN notes ELSE notesDurable
    /\ users' = IF txn = "failed" THEN usersDurable ELSE users
    /\ notes' = IF txn = "failed" THEN notesDurable ELSE notes
    /\ UNCHANGED <<nextUserId, nextNoteId, now>>

\* a call ends (returns or raises): the frame keeps what it was and its outcome
Return(c, ret) == [ctx[c] EXCEPT !.pc = "idle", !.ret = ret]

\* The statement is refused: the exception leaves the function and ends the run.
Raise(c) ==
    /\ ctx' = [ctx EXCEPT ![c] = Return(c, "raised")]
    /\ UNCHANGED <<dbVars, session, started>>

\* start of a call by c: no other frame still names c as a rival of its call
Enter(c, frame) ==
    [d \in Contexts |->
        IF d = c THEN frame
        ELSE [ctx[d] EXCEPT !.rivals = ctx[d].rivals \ {c}]]

(* ------------------------------ init_db -------------------------------- *)

\* the frame of a new run; it remembers whether the run before it was a
\* register that returned True
RunFrame(c) ==
    [IdleFrame EXCEPT
        !.op = "init_db",
        !.prev = IF ctx[c].op = "register" /\ ctx[c].ret = "True"
                 THEN Some([email |-> ctx[c].email, password |-> ctx[c].password,
                            id |-> ctx[c].new_id])
                 ELSE None]

\* A browser event reruns the script: main() starts with init_db(), whose first
\* statement is CREATE TABLE IF NOT EXISTS users.  The table exists: the
\* statement only opens the transaction.
StartRun(c) ==
    /\ ctx[c].pc = "idle"
    /\ started < MaxRuns
    /\ started' = started + 1
    /\ ctx' = Enter(c, [RunFrame(c) EXCEPT
                           !.pc = IF Refused THEN "idle" ELSE "init_notes",
                           !.ret = IF Refused THEN "raised" ELSE "none"])
    /\ txn' = IF Refused THEN txn ELSE "begin"
    /\ UNCHANGED <<users, usersDurable, notes, notesDurable,
                   nextUserId, nextNoteId, now, session>>

\* CREATE TABLE IF NOT EXISTS notes
InitDbNotes(c) ==
    /\ ctx[c].pc = "init_notes"
    /\ IF Refused THEN Raise(c)
       ELSE /\ txn' = "begin"
            /\ ctx' = [ctx EXCEPT ![c].pc = "init_commit"]
            /\ UNCHANGED <<users, usersDurable, notes, notesDurable,
                           nextUserId, nextNoteId, now, session, started>>

\* conn.commit() of init_db; the page chosen in the sidebar follows it
InitDbCommit(c) ==
    /\ ctx[c].pc = "init_commit"
    /\ Commit
    /\ UNCHANGED started

(* --------------------------- register_user ----------------------------- *)

\* the register calls that found the same email free and have not inserted yet
Racing(c) == {d \in Contexts \ {c} : /\ ctx[d].pc = "reg_insert"
                                    /\ ctx[d].email = ctx[c].email}

\* SELECT id FROM users WHERE email=%s; fetchone(); return False if a row came
RegSelect(c) ==
    /\ ctx[c].pc = "reg_select"
    /\ IF Refused THEN Raise(c)
       ELSE /\ txn' = "begin"
            /\ ctx' = IF FetchByEmail(users, ctx[c].email) # None
                      THEN [ctx EXCEPT ![c] = Return(c, "False")]
                      ELSE [d \in Contexts |->
                              IF d = c
                              THEN [ctx[c] EXCEPT !.pc = "reg_insert",
                                                  !.rivals = Racing(c)]
                              ELSE IF d \in Racing(c)
                              THEN [ctx[d] EXCEPT !.rivals = ctx[d].rivals \cup {c}]
                              ELSE ctx[d]]
            /\ UNCHANGED <<users, usersDurable, notes, notesDurable,
                           nextUserId, nextNoteId, now, session, started>>

\* bcrypt.hash(password); INSERT INTO users (email, password_hash).  SERIAL
\* hands out the id before the UNIQUE check, so a refused INSERT uses one up;
\* a constraint violation aborts the connection's transaction.
RegInsert(c) ==
    /\ ctx[c].pc = "reg_insert"
    /\ IF Refused THEN Raise(c)
       ELSE \E salt \in Salts :
            /\ nextUserId' = nextUserId + 1
            /\ IF UniqueViolation(users, ctx[c].email)
               THEN /\ txn' = "failed"
                    /\ users' = users
                    /\ ctx' = [ctx EXCEPT ![c] = Return(c, "raised")]
               ELSE /\ txn' = "begin"
                    /\ users' = users \cup
                         {[id |-> nextUserId, email |-> ctx[c].email,
                           password_hash |-> BcryptHash(ctx[c].password, salt)]}
                    /\ ctx' = [ctx EXCEPT ![c].pc = "reg_commit",
                                          ![c].new_id = Some(nextUserId)]
            /\ UNCHANGED <<usersDurable, notes, notesDurable, nextNoteId,
                           now, session, started>>

\* (a register that logs the new user in)
RegCommit_LogsIn(c) ==
    /\ ctx[c].pc = "reg_commit"
    /\ Commit
    /\ ctx' = [ctx EXCEPT ![c] = Return(c, "True")]
    /\ session' = [session EXCEPT ![c] =
          [authenticated |-> TRUE, user_id |-> ctx[c].new_id,
           email |-> Some(ctx[c].email)]]
    /\ UNCHANGED started

\* conn.commit(); return True
RegCommit(c) ==
    /\ ctx[c].pc = "reg_commit"
    /\ Commit
    /\ ctx' = [ctx EXCEPT ![c] = Return(c, "True")]
    /\ UNCHANGED <<session, started>>

(* ------------------------- authenticate_user --------------------------- *)

\* (a failed login that also logs the context out)
SessionAfterAuth_ClearsOnFailure(s, row, email, password) ==
    IF row # None /\ BcryptVerify(password, row[1].password_hash)
    THEN [authenticated |-> TRUE, user_id |-> Some(row[1].id), email |-> Some(email)]
    ELSE AnonSession

\* (a login that leaves the user_id of the user logged in before)
SessionAfterAuth_KeepsUser(s, row, email, password) ==
    IF row # None /\ BcryptVerify(password, row[1].password_hash)
    THEN [authenticated |-> TRUE,
          user_id |-> IF IsAuthenticated(s) THEN s.user_id ELSE Some(row[1].id),
          email |-> Some(email)]
    ELSE s

\* what lines 83-94 leave in session_state, given the fetched row
SessionAfterAuth(s, row, email, password) ==
    IF row # None /\ BcryptVerify(password, row[1].password_hash)
    THEN [authenticated |-> TRUE, user_id |-> Some(row[1].id), email |-> Some(email)]
    ELSE s

AuthResult(row, password) ==
    IF row # None /\ BcryptVerify(password, row[1].password_hash)
    THEN "True" ELSE "False"

\* (session state kept in one process-wide object instead of per context)
AuthSelect_SharedSession(c) ==
    /\ ctx[c].pc = "auth_select"
    /\ IF Refused THEN Raise(c)
       ELSE LET row == FetchByEmail(users, ctx[c].email) IN
            /\ txn' = "begin"
            /\ session' = [d \in Contexts |->
                  SessionAfterAuth(session[d], row, ctx[c].email, ctx[c].password)]
            /\ ctx' = [ctx EXCEPT ![c] = Return(c, AuthResult(row, ctx[c].password))]
            /\ UNCHANGED <<users, usersDurable, notes, notesDurable,
                           nextUserId, nextNoteId, now, started>>

\* SELECT id, password_hash FROM users WHERE email=%s; fetchone(); verify
AuthSelect(c) ==
    /\ ctx[c].pc = "auth_select"
    /\ IF Refused THEN Raise(c)
       ELSE LET row == FetchByEmail(users, ctx[c].email) IN
            /\ txn' = "begin"
            /\ session' = [session EXCEPT ![c] =
                  SessionAfterAuth(session[c], row, ctx[c].email, ctx[c].password)]
            /\ ctx' = [ctx EXCEPT ![c] = Return(c, AuthResult(row, ctx[c].password))]
            /\ UNCHANGED <<users, usersDurable, notes, notesDurable,
                           nextUserId, nextNoteId, now, started>>

(* ------------------------------ add_note ------------------------------- *)

\* INSERT INTO notes (user_id, text, created_at) VALUES (.., .., datetime.now())
\* The wall clock read by datetime.now() has advanced since the last read, or not.
AddInsert(c) ==
    /\ ctx[c].pc = "add_insert"
    /\ IF Refused THEN Raise(c)
       ELSE \E t \in {now, now + 1} :
            /\ now' = t
            /\ nextNoteId' = nextNoteId + 1
            /\ IF ForeignKeyViolation(users, ctx[c].user_id)
               THEN /\ txn' = "failed"
                    /\ notes' = notes
                    /\ ctx' = [ctx EXCEPT ![c] = Return(c, "raised")]
               ELSE /\ txn' = "begin"
                    /\ notes' = notes \cup
                         {[id |-> nextNoteId, user_id |-> ctx[c].user_id[1],
                           text |-> ctx[c].text, created_at |-> t]}
                    /\ ctx' = [ctx EXCEPT ![c].pc = "add_commit",
                                          ![c].new_id = Some(nextNoteId)]
            /\ UNCHANGED <<users, usersDurable, notesDurable, nextUserId, session,
                           started>>

\* conn.commit(); add_note returns None.  In main() load_notes follows (line 205).
AddCommit(c) ==
    /\ ctx[c].pc = "add_commit"
    /\ Commit
    /\ ctx' = IF ctx[c].via = "main"
              THEN [ctx EXCEPT ![c].pc = "load_select", ![c].op = "load_notes"]
              ELSE [ctx EXCEPT ![c] = Return(c, "None")]
    /\ UNCHANGED <<session, started>>

(* ------------------------------ load_notes ----------------------------- *)

\* (ORDER BY created_at ASC)
Orderings_Ascending(rows) ==
    {s \in [1 .. Cardinality(rows) -> rows] :
        /\ \A i, j \in DOMAIN s : i # j => s[i] # s[j]
        /\ \A i, j \in DOMAIN s : i < j => s[i].created_at <= s[j].created_at}

\* the orders ORDER BY created_at DESC allows for a set of rows
Orderings(rows) ==
    {s \in [1 .. Cardinality(rows) -> rows] :
        /\ \A i, j \in DOMAIN s : i # j => s[i] # s[j]
        /\ \A i, j \in DOMAIN s : i < j => s[i].created_at >= s[j].created_at}

\* (a SELECT without its WHERE clause)
OwnedBy_All(rows, user_id) ==
    {[id |-> n.id, text |-> n.text, created_at |-> n.created_at] : n \in rows}

\* SELECT id, text, created_at FROM notes WHERE user_id = %s
OwnedBy(rows, user_id) ==
    {[id |-> n.id, text |-> n.text, created_at |-> n.created_at] :
        n \in {m \in rows : Some(m.user_id) = user_id}}

\* execute; fetchall().  The transaction the SELECT opened is left open.
LoadSelect(c) ==
    /\ ctx[c].pc = "load_select"
    /\ IF Refused THEN Raise(c)
       ELSE \E result \in Orderings(OwnedBy(notes, ctx[c].user_id)) :
            /\ txn' = "begin"
            /\ ctx' = [ctx EXCEPT ![c] = [Return(c, "rows") EXCEPT !.rows = result]]
            /\ UNCHANGED <<users, usersDurable, notes, notesDurable,
                           nextUserId, nextNoteId, now, session, started>>

(* ---------------------- main(): the chosen page ------------------------ *)

\* lines 138-141 run before the page; a page that calls nothing ends the run
PageEnds(c, op) ==
    /\ ctx' = [ctx EXCEPT ![c].pc = "idle", ![c].op = op]
    /\ session' = [session EXCEPT ![c] = SessionInit(session[c])]

PageCalls(c, frame) ==
    /\ ctx' = [ctx EXCEPT ![c] = frame]
    /\ session' = [session EXCEPT ![c] = SessionInit(session[c])]

PageHome(c) ==
    /\ InitDbCommit(c)
    /\ PageEnds(c, "home")

\* lines 159-174
PageRegister(c) ==
    /\ InitDbCommit(c)
    /\ \E email \in Emails, password \in Passwords, password2 \in Passwords,
          clicked \in BOOLEAN :
          IF /\ clicked
             /\ password = password2
             /\ ~ (Len(email) < MinEmailLen \/ Len(password) < MinPasswordLen)
          THEN PageCalls(c, [ctx[c] EXCEPT !.pc = "reg_select", !.op = "register",
                                           !.email = email, !.password = password])
          ELSE PageEnds(c, "register_page")

\* lines 177-185
PageLogin(c) ==
    /\ InitDbCommit(c)
    /\ \E email \in Emails, password \in Passwords, clicked \in BOOLEAN :
          IF clicked
          THEN PageCalls(c, [ctx[c] EXCEPT !.pc = "auth_select", !.op = "login",
                                           !.email = email, !.password = password,
                                           !.was = CurrentUser(session[c])])
          ELSE PageEnds(c, "login_page")

\* (a notes page without the is_authenticated() test)
PageNotes_NoAuthCheck(c) ==
    /\ InitDbCommit(c)
    /\ \E new_note \in Texts, clicked \in BOOLEAN :
          IF clicked /\ Strip(new_note) # << >>
          THEN PageCalls(c, [ctx[c] EXCEPT !.pc = "add_insert", !.op = "add_note",
                                           !.user_id = SessionInit(session[c]).user_id,
                                           !.text = Strip(new_note)])
          ELSE PageCalls(c, [ctx[c] EXCEPT !.pc = "load_select", !.op = "load_notes",
                                           !.user_id = SessionInit(session[c]).user_id])

\* lines 188-210
PageNotes(c) ==
    /\ InitDbCommit(c)
    /\ \E new_note \in Texts, clicked \in BOOLEAN :
          IF ~ IsAuthenticated(session[c])
          THEN PageEnds(c, "notes_page")
          ELSE IF clicked /\ Strip(new_note) # << >>
          THEN PageCalls(c, [ctx[c] EXCEPT !.pc = "add_insert", !.op = "add_note",
                                           !.user_id = session[c].user_id,
                                           !.text = Strip(new_note)])
          ELSE PageCalls(c, [ctx[c] EXCEPT !.pc = "load_select", !.op = "load_notes",
                                           !.user_id = session[c].user_id])

\* (a logout that clears the flag only)
LogoutSession_KeepsUser(s) ==
    IF IsAuthenticated(s) THEN [s EXCEPT !.authenticated = FALSE] ELSE s

\* lines 213-220
LogoutSession(s) == IF IsAuthenticated(s) THEN AnonSession ELSE s

PageLogout(c) ==
    /\ InitDbCommit(c)
    /\ ctx' = [ctx EXCEPT ![c].pc = "idle", ![c].op = "logout",
                          ![c].was = CurrentUser(session[c])]
    /\ session' = [session EXCEPT ![c] = LogoutSession(SessionInit(session[c]))]

(* ------------------- the functions called directly --------------------- *)

UserIds == {1, 2}

\* a direct call starts
Call ==
    /\ started < MaxRuns
    /\ started' = started + 1
    /\ UNCHANGED <<dbVars, session>>

ApiFrame(c, pc, op) ==
    [RunFrame(c) EXCEPT !.pc = pc, !.op = op, !.via = "api",
                        !.was = CurrentUser(session[c])]

ApiRegister(c) ==
    /\ ctx[c].pc = "idle"
    /\ \E email \in Emails, password \in Passwords :
          ctx' = Enter(c, [ApiFrame(c, "reg_select", "register") EXCEPT
                              !.email = email, !.password = password])
    /\ Call

ApiLogin(c) ==
    /\ ctx[c].pc = "idle"
    /\ \E email \in Emails, password \in Passwords :
          ctx' = Enter(c, [ApiFrame(c, "auth_select", "login") EXCEPT
                              !.email = email, !.password = password])
    /\ Call

ApiAddNote(c) ==
    /\ ctx[c].pc = "idle"
    /\ \E user_id \in UserIds, text \in Texts :
          ctx' = Enter(c, [ApiFrame(c, "add_insert", "add_note") EXCEPT
                              !.user_id = Some(user_id), !.text = text])
    /\ Call

ApiLoadNotes(c) ==
    /\ ctx[c].pc = "idle"
    /\ \E user_id \in UserIds :
          ctx' = Enter(c, [ApiFrame(c, "load_select", "load_notes") EXCEPT
                              !.user_id = Some(user_id)])
    /\ Call

(* --------------------------- specifications ---------------------------- *)

\* the application: every context reruns main()
Next ==
    \E c \in Contexts :
        \/ StartRun(c)
        \/ InitDbNotes(c)
        \/ PageHome(c)
        \/ PageRegister(c)
        \/ PageLogin(c)
        \/ PageNotes(c)
        \/ PageLogout(c)
        \/ RegSelect(c)
        \/ RegInsert(c)
        \/ RegCommit(c)
        \/ AuthSelect(c)
        \/ AddInsert(c)
        \/ AddCommit(c)
        \/ LoadSelect(c)

Spec == Init /\ [][Next]_vars

\* the core functions called directly, with any arguments
NextCore ==
    \E c \in Callers :
        \/ ApiRegister(c)
        \/ ApiLogin(c)
        \/ ApiAddNote(c)
        \/ ApiLoadNotes(c)
        \/ RegSelect(c)
        \/ RegInsert(c)
        \/ RegCommit(c)
        \/ AuthSelect(c)
        \/ AddInsert(c)
        \/ AddCommit(c)
        \/ LoadSelect(c)

CoreSpec == Init /\ [][NextCore]_vars

(* ----------------------------- properties ------------------------------ *)

Returned(c, op) == ctx[c].op = op /\ ctx[c].pc = "idle" /\ ctx[c].ret # "none"

\* c's call leaves the statement at pc in this step
Leaves(c, pc) == ctx[c].pc = pc /\ ctx'[c].pc # pc

\* C1: of the register calls that run concurrently with one email that is not
\* registered, exactly one returns True and every other one returns False.
C1_ConcurrentRegisterExactlyOne ==
    \A c \in Contexts :
        LET group == {c} \cup ctx[c].rivals IN
        (ctx[c].rivals # {} /\ \A d \in group : Returned(d, "register"))
            => /\ \A d \in group : ctx[d].ret \in {"True", "False"}
               /\ Cardinality({d \in group : ctx[d].ret = "True"}) = 1

\* C2: no two rows of users have the same email, in the table the connection
\* sees and in the committed table.
C2_EmailsUnique ==
    /\ \A u, v \in users : u.email = v.email => u = v
    /\ \A u, v \in usersDurable : u.email = v.email => u = v

\* two register calls raced for one email, one row of that email exists, and
\* the constraint refused the INSERT of the other call
C2_Witness ==
    \E c \in Contexts : \E d \in ctx[c].rivals :
        /\ Returned(c, "register") /\ ctx[c].ret = "True"
        /\ Returned(d, "register") /\ ctx[d].ret = "raised"
        /\ Cardinality({u \in usersDurable : u.email = ctx[c].email}) = 1

\* C3: a register that returned True, followed at once by a login of the same
\* context with the same email and password: the login returns True and the
\* session holds the id of the row the register inserted.
C3_RegisterThenLogin ==
    \A c \in Contexts :
        (/\ Returned(c, "login")
         /\ ctx[c].prev # None
         /\ ctx[c].prev[1].email = ctx[c].email
         /\ ctx[c].prev[1].password = ctx[c].password)
            => /\ ctx[c].ret = "True"
               /\ session[c].user_id = ctx[c].prev[1].id

\* C4: register with an email a committed row already has returns False,
\* whatever the password, and changes no row of users.
C4_RegisterExistingFails ==
    [][\A c \in Contexts :
          (/\ Leaves(c, "reg_select")
           /\ \E u \in usersDurable : u.email = ctx[c].email)
             => /\ ctx'[c].ret = "False"
                /\ users' = users
                /\ usersDurable' = usersDurable]_vars

\* C5: login returns False when no row has the email and when the password does
\* not match the row's hash, and True when a row has the email and the password
\* matches.
C5_LoginOutcome ==
    [][\A c \in Contexts :
          Leaves(c, "auth_select")
             => ctx'[c].ret =
                  IF \E u \in users : /\ u.email = ctx[c].email
                                      /\ BcryptVerify(ctx[c].password, u.password_hash)
                  THEN "True" ELSE "False"]_vars

\* C6: a login that does not succeed leaves the session of its context as it was.
C6_FailedLoginKeepsSession ==
    [][\A c \in Contexts :
          (Leaves(c, "auth_select") /\ ctx'[c].ret # "True")
             => session'[c] = session[c]]_vars

\* a login failed in a context that was logged in, and it still is, as the same user
C6_Witness ==
    \E c \in Contexts :
        /\ Returned(c, "login") /\ ctx[c].ret = "False"
        /\ ctx[c].was # None
        /\ IsAuthenticated(session[c])
        /\ session[c].user_id = ctx[c].was

\* C7: a login that succeeds leaves authenticated = true, email = the email given
\* and user_id = the id of the row with that email, whatever the session was.
C7_LoginSetsSession ==
    [][\A c \in Contexts :
          (Leaves(c, "auth_select") /\ ctx'[c].ret = "True")
             => /\ session'[c].authenticated = TRUE
                /\ session'[c].email = Some(ctx[c].email)
                /\ \E u \in users : /\ u.email = ctx[c].email
                                    /\ session'[c].user_id = Some(u.id)]_vars

\* a context logged in as one user logged in as another, and the session is the
\* other user's
C7_Witness ==
    \E c \in Contexts :
        /\ Returned(c, "login") /\ ctx[c].ret = "True"
        /\ ctx[c].was # None
        /\ session[c].user_id # ctx[c].was
        /\ \E u \in users : /\ Some(u.email) = session[c].email
                            /\ Some(u.id) = session[c].user_id
                            /\ u.email = ctx[c].email

\* C8: a session with authenticated = true has a user_id and an email, and a row
\* of users has that id and that email.
C8_AuthenticatedSessionRefersToUser ==
    \A c \in Contexts :
        IsAuthenticated(session[c])
            => /\ session[c].user_id # None
               /\ session[c].email # None
               /\ \E u \in users : /\ Some(u.id) = session[c].user_id
                                   /\ Some(u.email) = session[c].email

\* C9: after logout the session is the initial anonymous one (not authenticated,
\* no user_id, no email), whatever it was; a second logout changes nothing.
C9_LogoutResetsSession ==
    [][\A c \in Contexts :
          (ctx[c].pc = "init_commit" /\ ctx'[c].op = "logout")
             => /\ ~ IsAuthenticated(session'[c])
                /\ session'[c].user_id = None
                /\ session'[c].email = None
                /\ session'[c] = AnonSession
                /\ LogoutSession(session'[c]) = session'[c]]_vars

\* a context that was logged in has logged out
C9_Witness ==
    \E c \in Contexts :
        /\ ctx[c].op = "logout" /\ ctx[c].pc = "idle"
        /\ ctx[c].was # None
        /\ session[c] = AnonSession

\* C10: add_note with a text that is empty or all whitespace, for a user that
\* exists, returns InvalidInput and no row of notes holds such a text.
C10_BlankNoteRejected ==
    /\ \A n \in notes \cup notesDurable : Strip(n.text) # << >>
    /\ \A c \in Contexts :
          (/\ ctx[c].op = "add_note" /\ ctx[c].pc = "idle"
           /\ Strip(ctx[c].text) = << >>
           /\ \E u \in users : Some(u.id) = ctx[c].user_id)
             => ctx[c].ret = "InvalidInput"

\* the ids of the rows a load_notes returned
ListedIds(rows) == {rows[i].id : i \in DOMAIN rows}

\* the rows of notes a user owns
NotesOf(user_id) == {n \in notes : Some(n.user_id) = user_id}

\* C11: load_notes(u) returns the notes whose owner is u and no other: a note of
\* user A is in no result for a user B # A.
C11_ListOnlyOwnNotes ==
    [][\A c \in Contexts :
          (Leaves(c, "load_select") /\ ctx'[c].ret = "rows")
             => /\ ListedIds(ctx'[c].rows) = {n.id : n \in NotesOf(ctx[c].user_id)}
                /\ \A n \in notes :
                      Some(n.user_id) # ctx[c].user_id
                         => n.id \notin ListedIds(ctx'[c].rows)]_vars

\* a load_notes returned while a note of another user was in the table, without it
C11_Witness ==
    \E c \in Contexts :
        /\ Returned(c, "load_notes") /\ ctx[c].ret = "rows"
        /\ \E n \in notesDurable : /\ Some(n.user_id) # ctx[c].user_id
                                   /\ n.id \notin ListedIds(ctx[c].rows)

C13_NotesOwnedAndImmutable ==
    /\ [](\A n \in notes :
             /\ \E u \in users : u.id = n.user_id
             /\ \A m \in notes : m.id = n.id => m = n)
    /\ [][\A n \in notes : n \in notes']_vars

\* the calls that have sent their statements and have only their COMMIT left
Committing == {c \in Contexts : ctx[c].pc \in {"init_commit", "reg_commit", "add_commit"}}

\* C14: a failed statement is recoverable: the connection is never left with its
\* transaction aborted and no call that will end it.  (Every statement of a
\* later call is refused while the transaction is aborted, and only a call
\* that has already sent its statements goes on to commit.)
C14_FailureRecoverable == Refused => Committing # {}

\* C15: a row a register or an add_note has inserted and not committed becomes
\* durable only by the commit of that same call.
C15_OwnCommitOnly ==
    [][\A c \in Contexts :
          /\ \A u \in users \ usersDurable :
                (ctx[c].pc = "reg_commit" /\ ctx[c].new_id = Some(u.id)
                    /\ u \in usersDurable')
                   => ctx'[c].pc # "reg_commit"
          /\ \A n \in notes \ notesDurable :
                (ctx[c].pc = "add_commit" /\ ctx[c].new_id = Some(n.id)
                    /\ n \in notesDurable')
                   => ctx'[c].pc # "add_commit"]_vars

\* C16: the session of a context (an empty session_state counts as anonymous)
\* changes only in its own successful login, to authenticated, and in its own
\* logout, to anonymous; register, a failed login, add_note and load_notes
\* leave it as it was.
C16_SessionChangesOnlyByLoginLogout ==
    [][\A c \in Contexts :
          SessionInit(session'[c]) # SessionInit(session[c])
             => \/ /\ Leaves(c, "auth_select") /\ ctx'[c].ret = "True"
                   /\ IsAuthenticated(session'[c])
                \/ /\ ctx[c].pc = "init_commit" /\ ctx'[c].op = "logout"
                   /\ ~ IsAuthenticated(session'[c])]_vars

\* a register returned True and its context is still anonymous
C16_Witness ==
    \E c \in Contexts :
        /\ Returned(c, "register") /\ ctx[c].ret = "True"
        /\ session[c] = AnonSession

\* C17: the session of a context changes only in a step of that context.
C17_SessionOwnedByContext ==
    [][\A c \in Contexts :
          session'[c] # session[c] => ctx'[c].pc # ctx[c].pc]_vars

\* one context has logged out while another one, logged in as the same user,
\* still is
C17_Witness ==
    \E c, d \in Contexts :
        /\ c # d
        /\ ctx[d].op = "logout" /\ ctx[d].pc = "idle" /\ ctx[d].was # None
        /\ session[d] = AnonSession
        /\ IsAuthenticated(session[c])
        /\ session[c].user_id = ctx[d].was

\* C18: in main() a context is in add_note or load_notes only while its session
\* is authenticated, with the session's user_id as argument, and every row
\* that enters notes has as owner the user its context is logged in as.
C18_NotesOnlyForSessionUser ==
    [][/\ \A c \in Contexts :
            ctx'[c].pc \in {"add_insert", "add_commit", "load_select"}
               => /\ IsAuthenticated(session'[c])
                  /\ ctx'[c].user_id = session'[c].user_id
       /\ \A n \in notes' \ notes :
            \E c \in Contexts : /\ Leaves(c, "add_insert")
                                /\ IsAuthenticated(session[c])
                                /\ session[c].user_id = Some(n.user_id)]_vars

\* a logged-in context added a note through the notes page and read it back
C18_Witness ==
    \E c \in Contexts :
        /\ ctx[c].via = "main"
        /\ Returned(c, "load_notes") /\ ctx[c].ret = "rows"
        /\ IsAuthenticated(session[c])
        /\ \E n \in notesDurable : /\ Some(n.id) = ctx[c].new_id
                                   /\ Some(n.user_id) = session[c].user_id
                                   /\ n.id \in ListedIds(ctx[c].rows)

====
